---- MODULE Spec2Model ----
(***************************************************************************)
(* Model of the upload handlers of the tubely media backend.               *)
(*                                                                         *)
(* Strings are modelled as sequences of tokens: a token is either the one  *)
(* delimiter character "," or a run of characters that holds no ",".       *)
(* Formatting (fmt.Sprintf) is concatenation of token sequences and        *)
(* strings.Cut searches the sequence for the first "," token, so that an   *)
(* encode/decode round trip is computed, not assumed.                      *)
(*                                                                         *)
(* A *string (VideoURL) is a record [nil, s]: nil = TRUE is the nil        *)
(* pointer, otherwise s is the string pointed to.                          *)
(***************************************************************************)
EXTENDS Integers, Sequences, FiniteSets, TLC

\* ------------------------------------------------------------------ bounds

\* number of upload requests in one behaviour (they run concurrently)
MaxReqs == 2

\* widths and heights 0..MaxDim are enumerated for the classifier
MaxDim == 12

\* longest location string (in tokens) enumerated for the resolver
MaxLen == 5

\* --------------------------------------------------------------- strings

Nil == [nil |-> TRUE, s |-> <<>>]

Ptr(str) == [nil |-> FALSE, s |-> str]

\* the index of the last "," token instead of the first
IndexComma_Last(str) ==
  IF \E i \in 1..Len(str) : str[i] = ","
    THEN CHOOSE i \in 1..Len(str) :
           /\ str[i] = ","
           /\ \A j \in (i + 1)..Len(str) : str[j] # ","
    ELSE 0

\* index of the first "," token of str, 0 when there is none
IndexComma(str) ==
  IF \E i \in 1..Len(str) : str[i] = ","
    THEN CHOOSE i \in 1..Len(str) :
           /\ str[i] = ","
           /\ \A j \in 1..(i - 1) : str[j] # ","
    ELSE 0

\* strings.Cut(str, ","): before, after, found
Cut(str) ==
  LET i == IndexComma(str) IN
    IF i = 0
      THEN [before |-> str, after |-> <<>>, found |-> FALSE]
      ELSE [before |-> SubSeq(str, 1, i - 1),
            after  |-> SubSeq(str, i + 1, Len(str)),
            found  |-> TRUE]

\* ------------------------------------------------------------ presigning

\* The URL PresignGetObject returns for (bucket, key): it names the bucket
\* and the key and carries the signature query.
PresignedURL(bucket, key) ==
  <<"https://">> \o bucket \o <<"/">> \o key \o <<"?X-Amz-Signature">>

\* generatePresignedURL: presignOk is whether PresignGetObject succeeded
generatePresignedURL(bucket, key, presignOk) ==
  IF presignOk
    THEN [url |-> PresignedURL(bucket, key), err |-> FALSE]
    ELSE [url |-> <<>>, err |-> TRUE]

\* dbVideoToSignedVideo without the check of the ok that strings.Cut returns
dbVideoToSignedVideo_NoOkCheck(video, presignOk) ==
  IF video.VideoURL.nil \/ video.VideoURL.s = <<>>
    THEN [video |-> video, err |-> FALSE, signed |-> FALSE,
          bucket |-> <<>>, key |-> <<>>]
    ELSE
      LET c == Cut(video.VideoURL.s)
          p == generatePresignedURL(c.before, c.after, presignOk)
      IN IF p.err
           THEN [video |-> video, err |-> TRUE, signed |-> TRUE,
                 bucket |-> c.before, key |-> c.after]
           ELSE [video |-> [video EXCEPT !.VideoURL = Ptr(p.url)],
                 err |-> FALSE, signed |-> TRUE,
                 bucket |-> c.before, key |-> c.after]

\* dbVideoToSignedVideo: the returned video, the error, and the (bucket, key)
\* handed to the presigner (signed = FALSE when the presigner is not called)
dbVideoToSignedVideo(video, presignOk) ==
  IF video.VideoURL.nil \/ video.VideoURL.s = <<>>
    THEN [video |-> video, err |-> FALSE, signed |-> FALSE,
          bucket |-> <<>>, key |-> <<>>]
    ELSE
      LET c == Cut(video.VideoURL.s) IN
        IF ~c.found
          THEN [video |-> video, err |-> FALSE, signed |-> FALSE,
                bucket |-> <<>>, key |-> <<>>]
          ELSE
            LET p == generatePresignedURL(c.before, c.after, presignOk) IN
              IF p.err
                THEN [video |-> video, err |-> TRUE, signed |-> TRUE,
                      bucket |-> c.before, key |-> c.after]
                ELSE [video |-> [video EXCEPT !.VideoURL = Ptr(p.url)],
                      err |-> FALSE, signed |-> TRUE,
                      bucket |-> c.before, key |-> c.after]

\* ------------------------------------------------------------ classifier

\* the Streams a probe output unmarshals to: json.Unmarshal leaves the
\* struct empty when the output is empty or is not JSON
Unmarshal(out) == IF out.json THEN out.streams ELSE <<>>

\* RatioCategory with the ratio rounded to the nearest integer
RatioCategory_Rounded(s) ==
  LET ratio == (s.Width * 1000 + s.Height \div 2) \div s.Height IN
    IF ratio >= 1700 /\ ratio <= 1850 THEN "16:9"
    ELSE IF ratio >= 520 /\ ratio <= 600 THEN "9:16"
    ELSE "other"

\* the switch of getVideoAspectRatio on one stream
RatioCategory(s) ==
  LET ratio == (s.Width * 1000) \div s.Height IN
    IF ratio >= 1700 /\ ratio <= 1850 THEN "16:9"
    ELSE IF ratio >= 520 /\ ratio <= 600 THEN "9:16"
    ELSE "other"

\* getVideoAspectRatio made strict: no qualifying stream is an error
getVideoAspectRatio_Strict(out) ==
  IF out.json /\ \E i \in 1..Len(out.streams) :
                   /\ out.streams[i].CodecType = "video"
                   /\ out.streams[i].Width > 0
                   /\ out.streams[i].Height > 0
    THEN LET first == CHOOSE i \in 1..Len(out.streams) :
                        /\ out.streams[i].CodecType = "video"
                        /\ out.streams[i].Width > 0
                        /\ out.streams[i].Height > 0
                        /\ \A j \in 1..(i - 1) :
                             ~(/\ out.streams[j].CodecType = "video"
                               /\ out.streams[j].Width > 0
                               /\ out.streams[j].Height > 0)
         IN [aspectRatio |-> RatioCategory(out.streams[first]), err |-> FALSE]
    ELSE [aspectRatio |-> "", err |-> TRUE]

\* the loop condition of getVideoAspectRatio
Qualifies(s) == s.CodecType = "video" /\ s.Width > 0 /\ s.Height > 0

\* getVideoAspectRatio on the output of ffprobe; the error result is always nil
getVideoAspectRatio(out) ==
  LET streams == Unmarshal(out) IN
    IF \E i \in 1..Len(streams) : Qualifies(streams[i])
      THEN LET first == CHOOSE i \in 1..Len(streams) :
                          /\ Qualifies(streams[i])
                          /\ \A j \in 1..(i - 1) : ~Qualifies(streams[j])
           IN [aspectRatio |-> RatioCategory(streams[first]), err |-> FALSE]
      ELSE [aspectRatio |-> "other", err |-> FALSE]

\* OrientationPrefix with the two orientations taken for each other
OrientationPrefix_Swapped(aspectRatio) ==
  IF aspectRatio = "16:9" THEN "portrait"
  ELSE IF aspectRatio = "9:16" THEN "landscape"
  ELSE "other"

\* the switch of handlerUploadVideo on the aspect ratio: the key's prefix
OrientationPrefix(aspectRatio) ==
  IF aspectRatio = "16:9" THEN "landscape"
  ELSE IF aspectRatio = "9:16" THEN "portrait"
  ELSE "other"

\* ---------------------------------------------------------- configuration

\* cfg.s3Bucket and cfg.s3Region
s3Bucket == <<"tubely-bucket">>

s3Region == <<"eu-central-1">>

\* the users a bearer token can name; the video record belongs to the first
Users == {"U1", "U2"}

Owner == "U1"

\* the values rand.Read and base64.RawURLEncoding can produce for a name
RandomIDs == {"idA", "idB"}

\* the Content-Type headers of the uploaded form file
ContentTypes == {"", "video/mp4", "video/mp4; codecs=avc1", "image/png"}

\* mime.ParseMediaType: the media type without its parameters
ParseMediaType(header) ==
  IF header = "" THEN [mediaType |-> "", err |-> TRUE]
  ELSE IF header = "video/mp4; codecs=avc1"
    THEN [mediaType |-> "video/mp4", err |-> FALSE]
    ELSE [mediaType |-> header, err |-> FALSE]

\* strings.Split(mediaType, "/")[1]
FileExtension(mediaType) ==
  IF mediaType = "video/mp4" THEN "mp4"
  ELSE IF mediaType = "image/png" THEN "png"
  ELSE "jpeg"

Stream(codec, w, h) == [CodecType |-> codec, Width |-> w, Height |-> h]

\* what ffprobe can print for an uploaded file: nothing (the tool is missing
\* or fails), or a document with its streams
ProbeOutputs ==
  { [json |-> FALSE, streams |-> <<>>],
    [json |-> TRUE,  streams |-> <<Stream("audio", 0, 0), Stream("video", 0, 720)>>],
    [json |-> TRUE,  streams |-> <<Stream("audio", 0, 0), Stream("video", 1280, 720)>>],
    [json |-> TRUE,  streams |-> <<Stream("video", 720, 1280)>>],
    [json |-> TRUE,  streams |-> <<Stream("video", 640, 480)>>] }

\* the builds of handlerUploadVideo the repository holds:
\*   "direct"    uploads the spooled file and stores a plain S3 URL
\*   "classify"  the same, with the key partitioned by orientation
\*   "faststart" classifies, remuxes, checks the upload and stores "bucket,key"
Builds == {"direct", "classify", "faststart"}

Reqs == 1..MaxReqs

\* ------------------------------------------------------------------ state

VARIABLES
  build,    \* which handlerUploadVideo the server runs
  db,       \* the video record of the metadata store
  store,    \* the objects of the S3 bucket
  fs,       \* the files that exist in the temp directory
  req,      \* the upload requests: position and locals of each handler run
  cls,      \* one application of the classifier: its input and its result
  rsv,      \* one application of the resolver: its input and its result
  rt,       \* one reference encoded, persisted and resolved twice
  videoThumbnails  \* the global map of the thumbnails kept in memory

vars == <<build, db, store, fs, req, cls, rsv, rt, videoThumbnails>>

\* os.CreateTemp gives every request a name of its own
TempPath(r) == [name |-> r, suffix |-> ""]

\* fmt.Sprintf("%s.processing", filePath)
ProcessingPath(path) == [path EXCEPT !.suffix = ".processing"]

NoPath == [name |-> 0, suffix |-> ""]

\* the zero value of database.Video
NoVideo == [ID |-> "", UserID |-> "", VideoURL |-> Nil, ThumbnailURL |-> Nil]

NewRequest ==
  [pc |-> "new", userID |-> "", metadata |-> NoVideo,
   contentTypeHeader |-> "unread", mediaType |-> "", imageData |-> "", fileName |-> <<>>, probe |-> [json |-> FALSE, streams |-> <<>>],
   tempFile |-> NoPath, processedPath |-> NoPath,
   calls |-> <<>>, resp |-> <<>>]

\* the classifier before it is applied to the probe output `out`
ClassifierOn(out) ==
  [out |-> out, applied |-> FALSE, aspectRatio |-> "", err |-> FALSE, prefix |-> ""]

\* the resolver before it is applied to `video`
ResolverOn(video, presignOk) ==
  [video |-> video, presignOk |-> presignOk, applied |-> FALSE,
   result |-> [video |-> video, err |-> FALSE, signed |-> FALSE,
               bucket |-> <<>>, key |-> <<>>]]

\* the video record as CreateVideo leaves it: no video uploaded yet
NewVideo == [ID |-> "vid", UserID |-> Owner, VideoURL |-> Nil, ThumbnailURL |-> Nil]

\* what a resolution that has not happened yet holds
NoResolution ==
  [video |-> NewVideo, err |-> FALSE, signed |-> FALSE, bucket |-> <<>>, key |-> <<>>]

\* a reference to (bucket, key) that is about to be encoded, persisted and
\* resolved twice; presignOk is whether each of the two presign calls succeeds
RoundTripOn(bucket, key, presignOk) ==
  [bucket |-> bucket, key |-> key, presignOk |-> presignOk, stage |-> "new",
   record |-> NewVideo, first |-> NoResolution, second |-> NoResolution]

NoRoundTrip == RoundTripOn(<<>>, <<>>, <<TRUE, TRUE>>)

\* the server after start-up, no request received yet
InitServer ==
  /\ db = NewVideo
  /\ store = {}
  /\ fs = {}
  /\ req = [r \in Reqs |-> NewRequest]
  /\ videoThumbnails = {}

Init ==
  /\ build \in Builds
  /\ InitServer
  /\ cls = ClassifierOn([json |-> FALSE, streams |-> <<>>])
  /\ rsv = ResolverOn(NewVideo, TRUE)
  /\ rt = NoRoundTrip

\* respondWithError / respondWithJSON: one response written to w
Response(code, url) == [code |-> code, url |-> url]

\* the request r once the handler has written the response and returned: its
\* locals are gone, what stays is who called, the history of its calls and
\* its responses
Returned(r, calls, code, url) ==
  [NewRequest EXCEPT !.pc = "done", !.userID = req[r].userID, !.calls = calls,
                     !.resp = Append(req[r].resp, Response(code, url))]

\* s3Client.PutObject: the object replaces any object of the same key
PutInto(objects, bucket, key, body) ==
  {o \in objects : ~(o.bucket = bucket /\ o.key = key)}
    \cup {[bucket |-> bucket, key |-> key, body |-> body]}

\* --------------------------------------------------- handlerUploadVideo

\* uuid.Parse, auth.GetBearerToken, auth.ValidateJWT
Authenticate(r) ==
  /\ req[r].pc = "new"
  /\ \E idOk \in BOOLEAN, tokenOk \in BOOLEAN, u \in Users :
       req' = [req EXCEPT ![r] =
         IF ~idOk THEN Returned(r, @.calls, 400, Nil)
         ELSE IF ~tokenOk THEN Returned(r, @.calls, 401, Nil)
         ELSE [@ EXCEPT !.pc = "getVideo", !.userID = u]]
  /\ UNCHANGED <<build, db, store, fs, cls, rsv, rt, videoThumbnails>>

\* GetVideo with the return missing after the response of the owner check
GetVideo_NoReturn(r) ==
  /\ req[r].pc = "getVideo"
  /\ \E getOk \in BOOLEAN :
       req' = [req EXCEPT ![r] =
         IF ~getOk
           THEN Returned(r, Append(@.calls, "GetVideoFailed"), 400, Nil)
         ELSE [@ EXCEPT !.pc = "parseForm", !.metadata = db,
                        !.calls = Append(@, "GetVideo"),
                        !.resp = IF db.UserID # req[r].userID
                                   THEN Append(@, Response(401, Nil))
                                   ELSE @]]
  /\ UNCHANGED <<build, db, store, fs, cls, rsv, rt, videoThumbnails>>

\* cfg.db.GetVideo and the owner check
GetVideo(r) ==
  /\ req[r].pc = "getVideo"
  /\ \E getOk \in BOOLEAN :
       req' = [req EXCEPT ![r] =
         IF ~getOk
           THEN Returned(r, Append(@.calls, "GetVideoFailed"), 400, Nil)
         ELSE IF db.UserID # req[r].userID
           THEN Returned(r, Append(@.calls, "GetVideo"), 401, Nil)
         ELSE [@ EXCEPT !.pc = "parseForm", !.metadata = db,
                        !.calls = Append(@, "GetVideo")]]
  /\ UNCHANGED <<build, db, store, fs, cls, rsv, rt, videoThumbnails>>

\* ParseForm without the check of the media type: any type is let through
ParseForm_AnyType(r) ==
  /\ req[r].pc = "parseForm"
  /\ \E tooLarge \in BOOLEAN, hasFile \in BOOLEAN, header \in ContentTypes :
       LET m == ParseMediaType(header) IN
       req' = [req EXCEPT ![r] =
         IF tooLarge \/ ~hasFile
           THEN Returned(r, @.calls, 400, Nil)
         ELSE IF m.err
           THEN [Returned(r, req[r].calls, 400, Nil)
                   EXCEPT !.contentTypeHeader = header]
           ELSE [@ EXCEPT !.pc = "createTemp", !.mediaType = m.mediaType]]
  /\ UNCHANGED <<build, db, store, fs, cls, rsv, rt, videoThumbnails>>

\* http.MaxBytesReader, r.ParseMultipartForm, r.FormFile, mime.ParseMediaType
\* and the check of the media type; a request rejected for its media type
\* keeps the Content-Type header it was rejected for
ParseForm(r) ==
  /\ req[r].pc = "parseForm"
  /\ \E tooLarge \in BOOLEAN, hasFile \in BOOLEAN, header \in ContentTypes :
       LET m == ParseMediaType(header) IN
       req' = [req EXCEPT ![r] =
         IF tooLarge \/ ~hasFile
           THEN Returned(r, @.calls, 400, Nil)
         ELSE IF m.err \/ m.mediaType # "video/mp4"
           THEN [Returned(r, req[r].calls, 400, Nil)
                   EXCEPT !.contentTypeHeader = header]
           ELSE [@ EXCEPT !.pc = "createTemp", !.mediaType = m.mediaType]]
  /\ UNCHANGED <<build, db, store, fs, cls, rsv, rt, videoThumbnails>>

\* os.CreateTemp and the two defers that follow it
CreateTemp(r) ==
  /\ req[r].pc = "createTemp"
  /\ \E ok \in BOOLEAN :
       IF ok
         THEN /\ fs' = fs \cup {TempPath(r)}
              /\ req' = [req EXCEPT ![r] =
                   [@ EXCEPT !.pc = "copy", !.tempFile = TempPath(r),
                             !.calls = Append(@, "CreateTemp")]]
         ELSE /\ fs' = fs
              /\ req' = [req EXCEPT ![r] = Returned(r, @.calls, 500, Nil)]
  /\ UNCHANGED <<build, db, store, cls, rsv, rt, videoThumbnails>>

\* CopyToTemp with the removal of the temp file deferred only after the copy
CopyToTemp_LateDefer(r) ==
  /\ req[r].pc = "copy"
  /\ \E ok \in BOOLEAN :
       IF ok
         THEN /\ fs' = fs
              /\ req' = [req EXCEPT ![r] =
                   [@ EXCEPT !.pc = "rand", !.calls = Append(@, "Copy")]]
         ELSE /\ fs' = fs
              /\ req' = [req EXCEPT ![r] =
                   Returned(r, Append(@.calls, "Copy"), 500, Nil)]
  /\ UNCHANGED <<build, db, store, cls, rsv, rt, videoThumbnails>>

\* io.Copy into the temp file and the rewind; a return runs the deferred
\* tempFile.Close and os.Remove(tempFile.Name())
CopyToTemp(r) ==
  /\ req[r].pc = "copy"
  /\ \E ok \in BOOLEAN :
       IF ok
         THEN /\ fs' = fs
              /\ req' = [req EXCEPT ![r] =
                   [@ EXCEPT !.pc = "rand", !.calls = Append(@, "Copy")]]
         ELSE /\ fs' = fs \ {req[r].tempFile}
              /\ req' = [req EXCEPT ![r] =
                   Returned(r, Append(@.calls, "Copy"), 500, Nil)]
  /\ UNCHANGED <<build, db, store, cls, rsv, rt, videoThumbnails>>

\* rand.Read, base64 and the extension: fileName = "<id>.<ext>"
RandomName(r) ==
  /\ req[r].pc = "rand"
  /\ \E ok \in BOOLEAN, id \in RandomIDs :
       IF ok
         THEN /\ fs' = fs
              /\ req' = [req EXCEPT ![r] =
                   [@ EXCEPT !.pc = IF build = "direct" THEN "put" ELSE "classify",
                             !.fileName = <<id, ".", FileExtension(req[r].mediaType)>>]]
         ELSE /\ fs' = fs \ {req[r].tempFile}
              /\ req' = [req EXCEPT ![r] = Returned(r, @.calls, 500, Nil)]
  /\ UNCHANGED <<build, db, store, cls, rsv, rt, videoThumbnails>>

\* Classify with the upload started right after the classification, the
\* normalization left out
Classify_ThenPut(r) ==
  /\ req[r].pc = "classify"
  /\ \E out \in ProbeOutputs :
       LET a == getVideoAspectRatio(out) IN
       /\ fs' = fs
       /\ req' = [req EXCEPT ![r] =
            [@ EXCEPT !.pc = "put",
                      !.probe = out,
                      !.calls = Append(@, "ffprobe"),
                      !.fileName =
                        <<OrientationPrefix(a.aspectRatio), "/">> \o @]]
  /\ UNCHANGED <<build, db, store, cls, rsv, rt, videoThumbnails>>

\* getVideoAspectRatio on the spooled file and the switch on its result
Classify(r) ==
  /\ req[r].pc = "classify"
  /\ \E out \in ProbeOutputs :
       LET a == getVideoAspectRatio(out) IN
       IF a.err
         THEN /\ fs' = fs \ {req[r].tempFile}
              /\ req' = [req EXCEPT ![r] =
                   Returned(r, Append(@.calls, "ffprobe"), 500, Nil)]
         ELSE /\ fs' = fs
              /\ req' = [req EXCEPT ![r] =
                   [@ EXCEPT !.pc = IF build = "faststart" THEN "fastStart" ELSE "put",
                             !.probe = out,
                             !.calls = Append(@, "ffprobe"),
                             !.fileName =
                               <<OrientationPrefix(a.aspectRatio), "/">> \o @]]
  /\ UNCHANGED <<build, db, store, cls, rsv, rt, videoThumbnails>>

\* what the ffmpeg run can leave behind: exit 0 with the output written, a
\* failure before the output was created, a failure after part of it was written
TranscodeOutcomes == {"ok", "failed", "failedPartial"}

\* FastStart with the error of processVideoForFastStart ignored: the handler
\* goes on to open whatever the tool has left
FastStart_IgnoreError(r) ==
  /\ req[r].pc = "fastStart"
  /\ \E outcome \in TranscodeOutcomes :
       LET outputFilePath == ProcessingPath(req[r].tempFile)
           written == IF outcome = "failed" THEN {} ELSE {outputFilePath}
       IN
       /\ fs' = fs \cup written
       /\ req' = [req EXCEPT ![r] =
            [@ EXCEPT !.pc = "open", !.processedPath = outputFilePath,
                      !.calls = Append(@, IF outcome = "ok" THEN "ffmpeg"
                                          ELSE "ffmpegFailed")]]
  /\ UNCHANGED <<build, db, store, cls, rsv, rt, videoThumbnails>>

\* processVideoForFastStart and the defer of os.Remove(processedPath); on an
\* error the handler returns before that defer is registered
FastStart(r) ==
  /\ req[r].pc = "fastStart"
  /\ \E outcome \in TranscodeOutcomes :
       LET outputFilePath == ProcessingPath(req[r].tempFile)
           written == IF outcome = "failed" THEN {} ELSE {outputFilePath}
       IN
       IF outcome = "ok"
         THEN /\ fs' = fs \cup written
              /\ req' = [req EXCEPT ![r] =
                   [@ EXCEPT !.pc = "open", !.processedPath = outputFilePath,
                             !.calls = Append(@, "ffmpeg")]]
         ELSE /\ fs' = (fs \cup written) \ {req[r].tempFile}
              /\ req' = [req EXCEPT ![r] =
                   Returned(r, Append(@.calls, "ffmpegFailed"), 500, Nil)]
  /\ UNCHANGED <<build, db, store, cls, rsv, rt, videoThumbnails>>

\* os.Open(processedPath) and the defer of processedFile.Close
OpenProcessed(r) ==
  /\ req[r].pc = "open"
  /\ \E ok \in BOOLEAN :
       IF ok
         THEN /\ fs' = fs
              /\ req' = [req EXCEPT ![r] =
                   [@ EXCEPT !.pc = "put", !.calls = Append(@, "Open")]]
         ELSE /\ fs' = fs \ {req[r].processedPath, req[r].tempFile}
              /\ req' = [req EXCEPT ![r] =
                   Returned(r, Append(@.calls, "Open"), 500, Nil)]
  /\ UNCHANGED <<build, db, store, cls, rsv, rt, videoThumbnails>>

\* s3Client.PutObject of the processed file, with its error checked
PutObject(r) ==
  /\ req[r].pc = "put"
  /\ build = "faststart"
  /\ \E ok \in BOOLEAN :
       IF ok
         THEN /\ store' = PutInto(store, s3Bucket, req[r].fileName, "processed")
              /\ fs' = fs
              /\ req' = [req EXCEPT ![r] =
                   [@ EXCEPT !.pc = "update", !.calls = Append(@, "PutObject")]]
         ELSE /\ store' = store
              /\ fs' = fs \ {req[r].processedPath, req[r].tempFile}
              /\ req' = [req EXCEPT ![r] =
                   Returned(r, Append(@.calls, "PutObjectFailed"), 500, Nil)]
  /\ UNCHANGED <<build, db, cls, rsv, rt, videoThumbnails>>

\* s3Client.PutObject of the spooled file, its result discarded
PutObjectUnchecked(r) ==
  /\ req[r].pc = "put"
  /\ build \in {"direct", "classify"}
  /\ \E ok \in BOOLEAN :
       /\ store' = IF ok
                     THEN PutInto(store, s3Bucket, req[r].fileName, "spooled")
                     ELSE store
       /\ req' = [req EXCEPT ![r] =
            [@ EXCEPT !.pc = "update",
                      !.calls = Append(@, IF ok THEN "PutObject"
                                                ELSE "PutObjectFailed")]]
  /\ UNCHANGED <<build, db, fs, cls, rsv, rt, videoThumbnails>>

\* the reference with its two parts in the wrong order
EncodeReference_Swapped(bucket, key) == key \o <<",">> \o bucket

\* fmt.Sprintf("%s,%s", cfg.s3Bucket, fileName)
EncodeReference(bucket, key) == bucket \o <<",">> \o key

\* UpdateVideo with the record signed before it is persisted
UpdateVideo_PersistSigned(r) ==
  /\ req[r].pc = "update"
  /\ build = "faststart"
  /\ \E ok \in BOOLEAN, presignOk \in BOOLEAN :
       LET videoURL == EncodeReference(s3Bucket, req[r].fileName)
           metadata == [req[r].metadata EXCEPT !.VideoURL = Ptr(videoURL)]
           signed == dbVideoToSignedVideo(metadata, presignOk)
       IN
       IF signed.err
         THEN /\ db' = db
              /\ req' = [req EXCEPT ![r] =
                   Returned(r, Append(@.calls, "PresignFailed"), 500, Nil)]
       ELSE IF ~ok
         THEN /\ db' = db
              /\ req' = [req EXCEPT ![r] =
                   Returned(r, @.calls \o <<"Presign", "UpdateVideoFailed">>,
                            500, Nil)]
         ELSE /\ db' = signed.video
              /\ req' = [req EXCEPT ![r] =
                   Returned(r, @.calls \o <<"Presign", "UpdateVideo">>,
                            200, signed.video.VideoURL)]
  /\ fs' = fs \ {req[r].processedPath, req[r].tempFile}
  /\ UNCHANGED <<build, store, cls, rsv, rt, videoThumbnails>>

\* UpdateVideo that keeps the location the record already has: the first
\* writer wins
UpdateVideo_KeepFirst(r) ==
  /\ req[r].pc = "update"
  /\ build = "faststart"
  /\ \E ok \in BOOLEAN, presignOk \in BOOLEAN :
       LET videoURL == EncodeReference(s3Bucket, req[r].fileName)
           metadata == [req[r].metadata EXCEPT !.VideoURL = Ptr(videoURL)]
           signed == dbVideoToSignedVideo(metadata, presignOk)
       IN
       IF ~ok
         THEN /\ db' = db
              /\ req' = [req EXCEPT ![r] =
                   Returned(r, Append(@.calls, "UpdateVideoFailed"), 500, Nil)]
         ELSE /\ db' = IF db.VideoURL.nil THEN metadata ELSE db
              /\ req' = [req EXCEPT ![r] =
                   IF signed.err
                     THEN Returned(r, @.calls \o <<"UpdateVideo", "PresignFailed">>,
                                   500, Nil)
                     ELSE Returned(r, @.calls \o <<"UpdateVideo", "Presign">>,
                                   200, signed.video.VideoURL)]
  /\ fs' = fs \ {req[r].processedPath, req[r].tempFile}
  /\ UNCHANGED <<build, store, cls, rsv, rt, videoThumbnails>>

\* UpdateVideo with the uploaded object deleted when the update fails
UpdateVideo_DeleteOnFailure(r) ==
  /\ req[r].pc = "update"
  /\ build = "faststart"
  /\ \E ok \in BOOLEAN, presignOk \in BOOLEAN :
       LET videoURL == EncodeReference(s3Bucket, req[r].fileName)
           metadata == [req[r].metadata EXCEPT !.VideoURL = Ptr(videoURL)]
           signed == dbVideoToSignedVideo(metadata, presignOk)
       IN
       IF ~ok
         THEN /\ db' = db
              /\ store' = {o \in store : o.key # req[r].fileName}
              /\ req' = [req EXCEPT ![r] =
                   Returned(r, Append(@.calls, "UpdateVideoFailed"), 500, Nil)]
         ELSE /\ db' = metadata
              /\ store' = store
              /\ req' = [req EXCEPT ![r] =
                   IF signed.err
                     THEN Returned(r, @.calls \o <<"UpdateVideo", "PresignFailed">>,
                                   500, Nil)
                     ELSE Returned(r, @.calls \o <<"UpdateVideo", "Presign">>,
                                   200, signed.video.VideoURL)]
  /\ fs' = fs \ {req[r].processedPath, req[r].tempFile}
  /\ UNCHANGED <<build, cls, rsv, rt, videoThumbnails>>

\* the reference, cfg.db.UpdateVideo, dbVideoToSignedVideo and the response
UpdateVideo(r) ==
  /\ req[r].pc = "update"
  /\ build = "faststart"
  /\ \E ok \in BOOLEAN, presignOk \in BOOLEAN :
       LET videoURL == EncodeReference(s3Bucket, req[r].fileName)
           metadata == [req[r].metadata EXCEPT !.VideoURL = Ptr(videoURL)]
           signed == dbVideoToSignedVideo(metadata, presignOk)
       IN
       IF ~ok
         THEN /\ db' = db
              /\ req' = [req EXCEPT ![r] =
                   Returned(r, Append(@.calls, "UpdateVideoFailed"), 500, Nil)]
         ELSE /\ db' = metadata
              /\ req' = [req EXCEPT ![r] =
                   IF signed.err
                     THEN Returned(r, @.calls \o <<"UpdateVideo", "PresignFailed">>,
                                   500, Nil)
                     ELSE Returned(r, @.calls \o (IF signed.signed
                                                    THEN <<"UpdateVideo", "Presign">>
                                                    ELSE <<"UpdateVideo">>),
                                   200, signed.video.VideoURL)]
  /\ fs' = fs \ {req[r].processedPath, req[r].tempFile}
  /\ UNCHANGED <<build, store, cls, rsv, rt, videoThumbnails>>

\* fmt.Sprintf("https://%s.s3.%s.amazonaws.com/%s", bucket, region, fileName)
PlainURL(bucket, region, key) ==
  <<"https://">> \o bucket \o <<".s3.">> \o region \o <<".amazonaws.com/">> \o key

\* the plain URL, cfg.db.UpdateVideo and the response
UpdateVideoPlain(r) ==
  /\ req[r].pc = "update"
  /\ build \in {"direct", "classify"}
  /\ \E ok \in BOOLEAN :
       LET videoURL == PlainURL(s3Bucket, s3Region, req[r].fileName)
           metadata == [req[r].metadata EXCEPT !.VideoURL = Ptr(videoURL)]
       IN
       IF ~ok
         THEN /\ db' = db
              /\ req' = [req EXCEPT ![r] =
                   Returned(r, Append(@.calls, "UpdateVideoFailed"), 500, Nil)]
         ELSE /\ db' = metadata
              /\ req' = [req EXCEPT ![r] =
                   Returned(r, Append(@.calls, "UpdateVideo"), 200, metadata.VideoURL)]
  /\ fs' = fs \ {req[r].tempFile}
  /\ UNCHANGED <<build, store, cls, rsv, rt, videoThumbnails>>

Next ==
  \E r \in Reqs :
    \/ Authenticate(r)
    \/ GetVideo(r)
    \/ ParseForm(r)
    \/ CreateTemp(r)
    \/ CopyToTemp(r)
    \/ RandomName(r)
    \/ Classify(r)
    \/ FastStart(r)
    \/ OpenProcessed(r)
    \/ PutObject(r)
    \/ PutObjectUnchecked(r)
    \/ UpdateVideo(r)
    \/ UpdateVideoPlain(r)

Spec == Init /\ [][Next]_vars

\* the next step of the handler run of request r
RequestStep(r) ==
  \/ Authenticate(r)
  \/ GetVideo(r)
  \/ ParseForm(r)
  \/ CreateTemp(r)
  \/ CopyToTemp(r)
  \/ RandomName(r)
  \/ Classify(r)
  \/ FastStart(r)
  \/ OpenProcessed(r)
  \/ PutObject(r)
  \/ PutObjectUnchecked(r)
  \/ UpdateVideo(r)
  \/ UpdateVideoPlain(r)

\* every handler run has a goroutine of its own that the scheduler keeps
\* running, and every external call it waits for returns: a request that can
\* take its next step takes it
SpecLive == Init /\ [][Next]_vars /\ \A r \in Reqs : WF_vars(RequestStep(r))

\* ------------------------------------------------ handlerUploadThumbnail

\* the versions of handlerUploadThumbnail the repository holds:
\*   "memory"   keeps the image in the global map videoThumbnails
\*   "dataURL"  stores the image in the record as a base64 data URL
\*   "file"     writes the image to a file of the assets directory
ThumbnailBuilds == {"memory", "dataURL", "file"}

\* the Content-Type headers of the uploaded thumbnail
ThumbnailContentTypes == {"", "image/png", "image/jpeg", "video/mp4"}

\* the bytes of an uploaded thumbnail
Images == {"imgA", "imgB"}

\* cfg.port
port == "8091"

\* filepath.Join(cfg.assetsRoot, fileName)
AssetPath(fileName) == [name |-> fileName, suffix |-> "assets"]

\* uuid.Parse, auth.GetBearerToken, auth.ValidateJWT
ThumbnailAuthenticate(r) ==
  /\ req[r].pc = "new"
  /\ \E idOk \in BOOLEAN, tokenOk \in BOOLEAN, u \in Users :
       req' = [req EXCEPT ![r] =
         IF ~idOk THEN Returned(r, @.calls, 400, Nil)
         ELSE IF ~tokenOk THEN Returned(r, @.calls, 401, Nil)
         ELSE [@ EXCEPT !.pc = "thumbnailForm", !.userID = u]]
  /\ UNCHANGED <<build, db, store, fs, cls, rsv, rt, videoThumbnails>>

\* r.ParseMultipartForm(10 << 20) with its result ignored, r.FormFile, and
\* then io.ReadAll ("memory", "dataURL") or mime.ParseMediaType and the check
\* of the media type ("file"). maxMemory is the size up to which the parts
\* are kept in memory: a larger file part is spilled to disk and parsed all
\* the same, so tooLarge decides nothing
ThumbnailParseForm(r) ==
  /\ req[r].pc = "thumbnailForm"
  /\ \E tooLarge \in BOOLEAN, hasFile \in BOOLEAN, readOk \in BOOLEAN,
        header \in ThumbnailContentTypes, image \in Images :
       LET m == ParseMediaType(header)
           parsed == Append(req[r].calls,
                            IF tooLarge THEN "ParseFormTooLarge" ELSE "ParseForm")
       IN
       req' = [req EXCEPT ![r] =
         IF ~hasFile THEN Returned(r, parsed, 400, Nil)
         ELSE IF build = "file"
           THEN IF m.err \/ m.mediaType \notin {"image/jpeg", "image/png"}
                  THEN Returned(r, parsed, 400, Nil)
                  ELSE [@ EXCEPT !.pc = "thumbnailGetVideo", !.calls = parsed,
                                 !.mediaType = m.mediaType, !.imageData = image]
           ELSE IF ~readOk
                  THEN Returned(r, parsed, 400, Nil)
                  ELSE [@ EXCEPT !.pc = "thumbnailGetVideo", !.calls = parsed,
                                 !.mediaType = header, !.imageData = image]]
  /\ UNCHANGED <<build, db, store, fs, cls, rsv, rt, videoThumbnails>>

\* cfg.db.GetVideo and the owner check: "file" returns after the response
\* 401, "memory" and "dataURL" write the response and go on
ThumbnailGetVideo(r) ==
  /\ req[r].pc = "thumbnailGetVideo"
  /\ \E getOk \in BOOLEAN :
       req' = [req EXCEPT ![r] =
         IF ~getOk
           THEN Returned(r, Append(@.calls, "GetVideoFailed"), 400, Nil)
         ELSE IF db.UserID # req[r].userID /\ build = "file"
           THEN Returned(r, Append(@.calls, "GetVideo"), 401, Nil)
         ELSE [@ EXCEPT !.pc = IF build = "memory" THEN "thumbnailStore"
                               ELSE IF build = "dataURL" THEN "thumbnailUpdate"
                               ELSE "thumbnailRand",
                        !.metadata = db,
                        !.calls = Append(@, "GetVideo"),
                        !.resp = IF db.UserID # req[r].userID
                                   THEN Append(@, Response(401, Nil))
                                   ELSE @]]
  /\ UNCHANGED <<build, db, store, fs, cls, rsv, rt, videoThumbnails>>

\* videoThumbnails[videoID] = thumbnail and the URL of the thumbnail endpoint
ThumbnailStore(r) ==
  /\ req[r].pc = "thumbnailStore"
  /\ build = "memory"
  /\ videoThumbnails' =
       {t \in videoThumbnails : t.videoID # req[r].metadata.ID}
         \cup {[videoID |-> req[r].metadata.ID, data |-> req[r].imageData,
                mediaType |-> req[r].mediaType]}
  /\ req' = [req EXCEPT ![r] =
       [@ EXCEPT !.pc = "thumbnailUpdate",
                 !.calls = Append(@, "StoreThumbnail"),
                 !.fileName = <<"http://localhost:", port, "/api/thumbnails/",
                                req[r].metadata.ID>>]]
  /\ UNCHANGED <<build, db, store, fs, cls, rsv, rt>>

\* rand.Read, base64 and the extension: fileName = "<id>.<ext>"
ThumbnailRandomName(r) ==
  /\ req[r].pc = "thumbnailRand"
  /\ build = "file"
  /\ \E ok \in BOOLEAN, id \in RandomIDs :
       req' = [req EXCEPT ![r] =
         IF ok
           THEN [@ EXCEPT !.pc = "thumbnailCreate",
                          !.fileName = <<id, ".", FileExtension(req[r].mediaType)>>]
           ELSE Returned(r, @.calls, 500, Nil)]
  /\ UNCHANGED <<build, db, store, fs, cls, rsv, rt, videoThumbnails>>

\* os.Create(filePath) and io.Copy(newFile, file), its result ignored
ThumbnailCreateFile(r) ==
  /\ req[r].pc = "thumbnailCreate"
  /\ build = "file"
  /\ \E ok \in BOOLEAN :
       IF ok
         THEN /\ fs' = fs \cup {AssetPath(req[r].fileName)}
              /\ req' = [req EXCEPT ![r] =
                   [@ EXCEPT !.pc = "thumbnailUpdate",
                             !.calls = Append(@, "CreateFile"),
                             !.fileName = <<"http://localhost:", port, "/assets/">>
                                            \o @]]
         ELSE /\ fs' = fs
              /\ req' = [req EXCEPT ![r] =
                   Returned(r, Append(@.calls, "CreateFileFailed"), 401, Nil)]
  /\ UNCHANGED <<build, db, store, cls, rsv, rt, videoThumbnails>>

\* fmt.Sprintf("data:%s;base64,%s", mediaType, imageBase64)
DataURL(mediaType, image) == <<"data:", mediaType, ";base64", ",", image>>

\* metadata.ThumbnailURL, cfg.db.UpdateVideo and the response
ThumbnailUpdateVideo(r) ==
  /\ req[r].pc = "thumbnailUpdate"
  /\ \E ok \in BOOLEAN :
       LET url == IF build = "dataURL"
                    THEN DataURL(req[r].mediaType, req[r].imageData)
                    ELSE req[r].fileName
           metadata == [req[r].metadata EXCEPT !.ThumbnailURL = Ptr(url)]
       IN
       IF ~ok
         THEN /\ db' = db
              /\ req' = [req EXCEPT ![r] =
                   Returned(r, Append(@.calls, "UpdateVideoFailed"), 500, Nil)]
         ELSE /\ db' = metadata
              /\ req' = [req EXCEPT ![r] =
                   Returned(r, Append(@.calls, "UpdateVideo"), 200,
                            metadata.ThumbnailURL)]
  /\ UNCHANGED <<build, store, fs, cls, rsv, rt, videoThumbnails>>

InitThumbnail ==
  /\ build \in ThumbnailBuilds
  /\ InitServer
  /\ cls = ClassifierOn([json |-> FALSE, streams |-> <<>>])
  /\ rsv = ResolverOn(NewVideo, TRUE)
  /\ rt = NoRoundTrip

NextThumbnail ==
  \E r \in Reqs :
    \/ ThumbnailAuthenticate(r)
    \/ ThumbnailParseForm(r)
    \/ ThumbnailGetVideo(r)
    \/ ThumbnailStore(r)
    \/ ThumbnailRandomName(r)
    \/ ThumbnailCreateFile(r)
    \/ ThumbnailUpdateVideo(r)

SpecThumbnail == InitThumbnail /\ [][NextThumbnail]_vars

\* ------------------------------------------- the classifier on its own

\* streams that must be skipped: not a video, or a width or height that is
\* not positive
SkippedStreams ==
  { Stream("audio", 1280, 720), Stream("video", 0, 720),
    Stream("video", 1280, 0), Stream("video", -16, -9) }

\* widths and heights whose ratio sits on or next to a boundary, or is
\* truncated onto one
BoundaryDims ==
  { <<1699, 1000>>, <<1700, 1000>>, <<1850, 1000>>, <<1851, 1000>>,
    <<519, 1000>>, <<520, 1000>>, <<600, 1000>>, <<601, 1000>>,
    <<16999, 10000>>, <<17001, 10000>>, <<18509, 10000>>, <<5199, 10000>>,
    <<6009, 10000>>, <<1280, 720>>, <<720, 1280>>, <<1920, 1080>> }

Dims == ((0..MaxDim) \X (0..MaxDim)) \cup BoundaryDims

AnyStreams == {Stream(c, d[1], d[2]) : c \in {"video", "audio"}, d \in Dims}

\* the streams that may follow the one of interest
TrailingStreams == {<<>>, <<Stream("video", 1280, 720)>>, <<Stream("video", 720, 1280)>>}

LeadingStreams == {<<>>} \cup {<<s>> : s \in SkippedStreams}

ClassifierInputs ==
  {[json |-> j, streams |-> <<>>] : j \in BOOLEAN}
    \cup {[json |-> j, streams |-> lead \o <<s>> \o trail] :
            j \in BOOLEAN, lead \in LeadingStreams, s \in AnyStreams,
            trail \in TrailingStreams}

InitClassify ==
  /\ build = "faststart"
  /\ InitServer
  /\ cls \in {ClassifierOn(out) : out \in ClassifierInputs}
  /\ rsv = ResolverOn(NewVideo, TRUE)
  /\ rt = NoRoundTrip

\* getVideoAspectRatio followed by the switch of handlerUploadVideo
ApplyClassifier ==
  /\ ~cls.applied
  /\ LET a == getVideoAspectRatio(cls.out) IN
       cls' = [cls EXCEPT !.applied = TRUE, !.aspectRatio = a.aspectRatio,
                          !.err = a.err,
                          !.prefix = OrientationPrefix(a.aspectRatio)]
  /\ UNCHANGED <<build, db, store, fs, req, rsv, rt, videoThumbnails>>

SpecClassify == InitClassify /\ [][ApplyClassifier]_vars

\* --------------------------------------------- the resolver on its own

\* the tokens of a stored location: the delimiter and two other tokens
LocationTokens == {"b", ",", "k"}

RECURSIVE StringsOfLen(_)
StringsOfLen(n) ==
  IF n = 0 THEN {<<>>}
  ELSE {Append(str, t) : str \in StringsOfLen(n - 1), t \in LocationTokens}

Locations == UNION {StringsOfLen(n) : n \in 0..MaxLen}

ResolverInputs ==
  {[NewVideo EXCEPT !.VideoURL = u] : u \in {Nil} \cup {Ptr(str) : str \in Locations}}

InitResolve ==
  /\ build = "faststart"
  /\ InitServer
  /\ cls = ClassifierOn([json |-> FALSE, streams |-> <<>>])
  /\ rsv \in {ResolverOn(v, ok) : v \in ResolverInputs, ok \in BOOLEAN}
  /\ rt = NoRoundTrip

\* dbVideoToSignedVideo on a video record
ApplyResolver ==
  /\ ~rsv.applied
  /\ rsv' = [rsv EXCEPT !.applied = TRUE,
                        !.result = dbVideoToSignedVideo(rsv.video, rsv.presignOk)]
  /\ UNCHANGED <<build, db, store, fs, req, cls, rt, videoThumbnails>>

SpecResolve == InitResolve /\ [][ApplyResolver]_vars

\* ------------------------------- encode, persist and resolve on their own

\* the tokens of a bucket name: S3 bucket names are made of lower-case
\* letters, digits, dots and hyphens, so none of them is the delimiter
BucketTokens == {"b", "."}

\* the tokens of an object key: S3 keys may hold any character, the
\* delimiter included
KeyTokens == {"k", ",", "/"}

Buckets == {<<>>} \cup {<<t>> : t \in BucketTokens} \cup (BucketTokens \X BucketTokens)

RECURSIVE KeysOfLen(_)
KeysOfLen(n) ==
  IF n = 0 THEN {<<>>}
  ELSE {Append(str, t) : str \in KeysOfLen(n - 1), t \in KeyTokens}

Keys == UNION {KeysOfLen(n) : n \in 0..MaxLen}

InitRoundTrip ==
  /\ build = "faststart"
  /\ InitServer
  /\ cls = ClassifierOn([json |-> FALSE, streams |-> <<>>])
  /\ rsv = ResolverOn(NewVideo, TRUE)
  /\ rt \in {RoundTripOn(b, k, ok) : b \in Buckets, k \in Keys,
                                     ok \in BOOLEAN \X BOOLEAN}

\* the reference is built and cfg.db.UpdateVideo persists the record
EncodeAndPersist ==
  /\ rt.stage = "new"
  /\ rt' = [rt EXCEPT !.stage = "persisted",
                      !.record = [NewVideo EXCEPT !.VideoURL =
                                    Ptr(EncodeReference(rt.bucket, rt.key))]]
  /\ UNCHANGED <<build, db, store, fs, req, cls, rsv, videoThumbnails>>

\* dbVideoToSignedVideo on the persisted record
ResolveFirst ==
  /\ rt.stage = "persisted"
  /\ rt' = [rt EXCEPT !.stage = "resolved",
                      !.first = dbVideoToSignedVideo(rt.record, rt.presignOk[1])]
  /\ UNCHANGED <<build, db, store, fs, req, cls, rsv, videoThumbnails>>

\* dbVideoToSignedVideo on the same persisted record, a second time
ResolveSecond ==
  /\ rt.stage = "resolved"
  /\ rt' = [rt EXCEPT !.stage = "resolvedTwice",
                      !.second = dbVideoToSignedVideo(rt.record, rt.presignOk[2])]
  /\ UNCHANGED <<build, db, store, fs, req, cls, rsv, videoThumbnails>>

NextRoundTrip == EncodeAndPersist \/ ResolveFirst \/ ResolveSecond

SpecRoundTrip == InitRoundTrip /\ [][NextRoundTrip]_vars

\* ------------------------------------------------------------ properties

\* request r has made the call c
Called(r, c) == \E i \in 1..Len(req[r].calls) : req[r].calls[i] = c

\* request r has called cfg.db.UpdateVideo, whatever its result
TriedUpdate(r) == Called(r, "UpdateVideo") \/ Called(r, "UpdateVideoFailed")

\* the location is the reference "bucket,key" of an object of the store
ReferencesStoredObject(url) ==
  /\ ~url.nil
  /\ \E o \in store : url.s = o.bucket \o <<",">> \o o.key

\* C1: a request whose object-store Put failed never calls UpdateVideo, and
\* it ends with the one response 500 (server-side error).
C1_PutFailureAborts ==
  \A r \in Reqs :
    Called(r, "PutObjectFailed") =>
      /\ ~TriedUpdate(r)
      /\ req[r].pc = "done" => req[r].resp = <<Response(500, Nil)>>

\* C2: the persisted location is absent or the reference "bucket,key" of an
\* object that exists in the store.
C2_LocationReferencesObject ==
  db.VideoURL.nil \/ ReferencesStoredObject(db.VideoURL)


\* stream i of the probe output is a video stream of positive width and height
IsVideoStream(out, i) ==
  /\ out.streams[i].CodecType = "video"
  /\ out.streams[i].Width > 0
  /\ out.streams[i].Height > 0

\* the probe output is a document that holds such a stream
HasVideoStream(out) ==
  out.json /\ \E i \in 1..Len(out.streams) : IsVideoStream(out, i)

\* the selected stream: the first such stream
SelectedStream(out) ==
  out.streams[CHOOSE i \in 1..Len(out.streams) :
                /\ IsVideoStream(out, i)
                /\ \A j \in 1..(i - 1) : ~IsVideoStream(out, j)]

\* C3: with ratio = floor(w*1000/h) of the selected stream, a ratio in
\* [1700,1850] gives the prefix landscape, one in [520,600] portrait, any
\* other ratio other; 1700, 1850, 520, 600 are inside their range and 1699,
\* 1851, 519, 601 are other.
C3_Classification ==
  (cls.applied /\ HasVideoStream(cls.out)) =>
    LET w == SelectedStream(cls.out).Width
        h == SelectedStream(cls.out).Height
        ratio == (w * 1000) \div h
    IN /\ ratio * h <= w * 1000 /\ w * 1000 < (ratio + 1) * h
       /\ (1700 <= ratio /\ ratio <= 1850) => cls.prefix = "landscape"
       /\ (520 <= ratio /\ ratio <= 600) => cls.prefix = "portrait"
       /\ (ratio < 520 \/ (600 < ratio /\ ratio < 1700) \/ 1850 < ratio)
            => cls.prefix = "other"
       /\ ratio \in {1700, 1850} => cls.prefix = "landscape"
       /\ ratio \in {520, 600} => cls.prefix = "portrait"
       /\ ratio \in {1699, 1851, 519, 601} => cls.prefix = "other"
       /\ ~cls.err

\* the classifier has skipped an audio stream and selected a stream of ratio
\* 1850.9, truncated to the boundary 1850, ahead of a portrait stream
C3_Witness ==
  /\ cls.applied
  /\ cls.out = [json |-> TRUE,
                streams |-> <<Stream("audio", 1280, 720),
                              Stream("video", 18509, 10000),
                              Stream("video", 720, 1280)>>]
  /\ cls.prefix = "landscape"


\* the keys of the partition other/
OtherKeys == {<<"other", "/", id, ".", "mp4">> : id \in RandomIDs}

\* request r has classified a file in which the probe found no video stream
\* of positive width and height, and has not returned yet
ClassifiedWithoutVideoStream(r) ==
  /\ build \in {"classify", "faststart"}
  /\ req[r].pc \in {"fastStart", "open", "put", "update"}
  /\ ~HasVideoStream(req[r].probe)

\* C4: when the probe output holds no video stream of positive width and
\* height (empty or unparseable output included), the classifier gives other
\* and no error: the handler never returns from the classification, the key
\* it goes on with is in other/, and the request that completes persists and
\* answers with that key.
C4_ProbeFailureIsNotFatal ==
  /\ [](\A r \in Reqs :
          ClassifiedWithoutVideoStream(r) => req[r].fileName \in OtherKeys)
  /\ [][\A r \in Reqs :
          (req[r].pc = "classify" /\ req'[r] # req[r])
            => req'[r].pc \in {"fastStart", "put"}]_vars
  /\ [][\A r \in Reqs :
          (/\ ClassifiedWithoutVideoStream(r)
           /\ req[r].pc = "update"
           /\ req'[r].pc = "done"
           /\ req'[r].resp[Len(req'[r].resp)].code = 200)
            => \E key \in OtherKeys :
                 IF build = "faststart"
                   THEN /\ db'.VideoURL = Ptr(s3Bucket \o <<",">> \o key)
                        /\ req'[r].resp[Len(req'[r].resp)].url
                             = Ptr(PresignedURL(s3Bucket, key))
                   ELSE /\ db'.VideoURL = Ptr(PlainURL(s3Bucket, s3Region, key))
                        /\ req'[r].resp[Len(req'[r].resp)].url = db'.VideoURL]_vars

\* the probe printed nothing, the classifier gave other, and the pipeline
\* went on: the file was remuxed and uploaded under a key of other/
C4_Witness ==
  \E r \in Reqs :
    /\ build = "faststart"
    /\ req[r].pc = "update"
    /\ ~req[r].probe.json
    /\ req[r].fileName \in OtherKeys
    /\ \E o \in store : o.key = req[r].fileName /\ o.body = "processed"


\* the caller of request r is authenticated and is not the owner of the record
NotOwner(r) == req[r].userID \in Users \ {db.UserID}

\* C5: a caller who is not the owner of the record gets the one response 401
\* and the request does nothing else: no temp file, no tool, no Put, no
\* UpdateVideo; its steps leave the record, the store and the files alone.
C5_NotOwnerIsRejected ==
  /\ [](\A r \in Reqs :
          NotOwner(r) =>
            /\ \A i \in 1..Len(req[r].calls) :
                 req[r].calls[i] \in {"GetVideo", "GetVideoFailed"}
            /\ req[r].pc \in {"getVideo", "done"}
            /\ Called(r, "GetVideo") => req[r].resp = <<Response(401, Nil)>>
            /\ TempPath(r) \notin fs
            /\ ProcessingPath(TempPath(r)) \notin fs)
  /\ [][\A r \in Reqs :
          (req'[r] # req[r] /\ req'[r].userID \in Users \ {db.UserID})
            => /\ db' = db
               /\ store' = store
               /\ fs' = fs]_vars

\* a caller who is not the owner was answered 401 after the owner had
\* uploaded a video: the location is the one the owner's upload left
C5_Witness ==
  \E r \in Reqs :
    /\ NotOwner(r)
    /\ req[r].pc = "done"
    /\ req[r].calls = <<"GetVideo">>
    /\ req[r].resp = <<Response(401, Nil)>>
    /\ ~db.VideoURL.nil

\* C6: once the handler has returned, the temp file of the request does not
\* exist, whatever the path it returned on.
C6_TempFileRemoved ==
  \A r \in Reqs : req[r].pc = "done" => TempPath(r) \notin fs

\* a request that had spooled the upload into its temp file has returned
\* after the upload to the object store failed, and the temp file is gone
C6_Witness ==
  \E r \in Reqs :
    /\ req[r].pc = "done"
    /\ Called(r, "CreateTemp")
    /\ Called(r, "PutObjectFailed")
    /\ req[r].resp = <<Response(500, Nil)>>
    /\ TempPath(r) \notin fs

\* C7: once the handler has returned, the output file of the normalizer
\* ("<temp file>.processing") does not exist, whatever the outcome.
C7_ProcessedFileRemoved ==
  \A r \in Reqs : req[r].pc = "done" => ProcessingPath(TempPath(r)) \notin fs

\* the number of "," tokens of str
RECURSIVE CountCommas(_)
CountCommas(str) ==
  IF str = <<>> THEN 0
  ELSE (IF Head(str) = "," THEN 1 ELSE 0) + CountCommas(Tail(str))

\* the resolver was applied and returned its argument, without an error and
\* without calling the presigner
ResolveWasNoOp ==
  /\ rsv.applied
  /\ rsv.result.video = rsv.video
  /\ ~rsv.result.err
  /\ ~rsv.result.signed

\* C8: on a record whose location is absent, empty or without a delimiter,
\* the resolver returns the record unchanged, with no error, and does not
\* call the presigner.
C8_ResolveNoOp ==
  (/\ rsv.applied
   /\ \/ rsv.video.VideoURL.nil
      \/ CountCommas(rsv.video.VideoURL.s) = 0)
    => ResolveWasNoOp

\* the resolver returned a record of location "bk" (no delimiter) as it was,
\* with a presigner that would have failed
C8_Witness ==
  /\ rsv.applied
  /\ rsv.video.VideoURL = Ptr(<<"b", "k">>)
  /\ ~rsv.presignOk
  /\ ResolveWasNoOp

\* C9 as stated: on a location that is present and does not hold exactly one
\* delimiter (none, or two or more), the resolver is a no-op.
C9_NoOpUnlessTwoParts ==
  (/\ rsv.applied
   /\ ~rsv.video.VideoURL.nil
   /\ CountCommas(rsv.video.VideoURL.s) # 1)
    => ResolveWasNoOp

\* C9 amended: the resolver is a no-op on a present location exactly when the
\* location holds no delimiter. A location with two or more delimiters is cut
\* at the first one: the bucket is the text before it, the key all the text
\* after it (further delimiters included), and this pair is presigned.
C9_CutAtFirstDelimiter ==
  (rsv.applied /\ ~rsv.video.VideoURL.nil) =>
    LET str == rsv.video.VideoURL.s
        res == rsv.result
    IN /\ ResolveWasNoOp <=> CountCommas(str) = 0
       /\ CountCommas(str) >= 2 =>
            /\ res.signed
            /\ CountCommas(res.bucket) = 0
            /\ res.bucket \o <<",">> \o res.key = str
            /\ CountCommas(res.key) = CountCommas(str) - 1
            /\ rsv.presignOk =>
                 /\ ~res.err
                 /\ res.video.VideoURL = Ptr(PresignedURL(res.bucket, res.key))
            /\ ~rsv.presignOk => (res.err /\ res.video = rsv.video)

\* the resolver signed bucket "b" and key "k,k" for the location "b,k,k"
C9_Witness ==
  /\ rsv.applied
  /\ rsv.presignOk
  /\ rsv.video.VideoURL = Ptr(<<"b", ",", "k", ",", "k">>)
  /\ rsv.result.bucket = <<"b">>
  /\ rsv.result.key = <<"k", ",", "k">>
  /\ rsv.result.video.VideoURL = Ptr(PresignedURL(<<"b">>, <<"k", ",", "k">>))

\* the location is a signed URL
IsSignedURL(url) ==
  /\ ~url.nil
  /\ url.s # <<>>
  /\ url.s[Len(url.s)] = "?X-Amz-Signature"

\* the location has the form "bucket,key": one delimiter, between two
\* non-empty parts
IsReference(url) ==
  /\ ~url.nil
  /\ CountCommas(url.s) = 1
  /\ Head(url.s) # ","
  /\ url.s[Len(url.s)] # ","

\* C10: the location the metadata store holds is never a signed URL; with the
\* handler that resolves, it is absent or of the form "bucket,key", and the
\* signed URL is in the response of the successful request only.
C10_SignedURLNotPersisted ==
  /\ ~IsSignedURL(db.VideoURL)
  /\ build = "faststart" =>
       /\ db.VideoURL.nil \/ IsReference(db.VideoURL)
       /\ \A r \in Reqs :
            \A i \in 1..Len(req[r].resp) :
              /\ IsSignedURL(req[r].resp[i].url) <=> req[r].resp[i].code = 200
              /\ IsSignedURL(req[r].resp[i].url) =>
                   /\ ~db.VideoURL.nil
                   /\ \E o \in store :
                        req[r].resp[i].url = Ptr(PresignedURL(o.bucket, o.key))

\* an upload was answered with a signed URL while the store holds "bucket,key"
C10_Witness ==
  \E r \in Reqs :
    /\ build = "faststart"
    /\ req[r].pc = "done"
    /\ IsSignedURL(req[r].resp[1].url)
    /\ IsReference(db.VideoURL)

\* the resolution res handed exactly (bucket, key) to the presigner, and gave
\* the URL signed for that pair unless the presigner failed
SignsPair(res, bucket, key, presignOk) ==
  /\ res.signed
  /\ res.bucket = bucket
  /\ res.key = key
  /\ res.err <=> ~presignOk
  /\ presignOk => res.video.VideoURL = Ptr(PresignedURL(bucket, key))
  /\ ~presignOk => res.video = rt.record

\* C11: resolving the record persisted by Encode signs exactly the pair
\* (bucket, key) that was encoded, the persisted record stays as Encode wrote
\* it, and resolving it a second time signs the same pair.
C11_EncodeResolveRoundTrip ==
  /\ rt.stage \in {"persisted", "resolved", "resolvedTwice"} =>
       rt.record.VideoURL = Ptr(rt.bucket \o <<",">> \o rt.key)
  /\ rt.stage \in {"resolved", "resolvedTwice"} =>
       SignsPair(rt.first, rt.bucket, rt.key, rt.presignOk[1])
  /\ rt.stage = "resolvedTwice" =>
       /\ SignsPair(rt.second, rt.bucket, rt.key, rt.presignOk[2])
       /\ rt.second.bucket = rt.first.bucket
       /\ rt.second.key = rt.first.key

\* the reference to bucket "b." and key "k/k,k" (a key that holds the
\* delimiter) was persisted and resolved twice, both times to the same pair
C11_Witness ==
  /\ rt.stage = "resolvedTwice"
  /\ rt.bucket = <<"b", ".">>
  /\ rt.key = <<"k", "/", "k", ",", "k">>
  /\ rt.presignOk = <<TRUE, TRUE>>
  /\ rt.first.video.VideoURL = Ptr(PresignedURL(rt.bucket, rt.key))
  /\ rt.second.video.VideoURL = rt.first.video.VideoURL

\* C12: a request whose upload exceeds the size ceiling ends with the one
\* response 400 right after the form was parsed: it reads no record, stores
\* no thumbnail, writes no file and does not call UpdateVideo.
C12_OversizedUploadRejected ==
  \A r \in Reqs :
    Called(r, "ParseFormTooLarge") =>
      /\ req[r].pc = "done"
      /\ req[r].calls = <<"ParseFormTooLarge">>
      /\ req[r].resp = <<Response(400, Nil)>>

\* C19: a caller of handlerUploadThumbnail who is not the owner of the record
\* gets the one response 401 when the record was read, and the request ends
\* there: no thumbnail stored, no file written, no UpdateVideo.
C19_NotOwnerThumbnailRejected ==
  \A r \in Reqs :
    (NotOwner(r) /\ Called(r, "GetVideo")) =>
      /\ req[r].pc = "done"
      /\ req[r].resp = <<Response(401, Nil)>>
      /\ ~Called(r, "StoreThumbnail")
      /\ ~Called(r, "CreateFile")
      /\ ~TriedUpdate(r)

\* the positions of handlerUploadVideo after the check of the media type
AfterMediaTypeCheck ==
  {"createTemp", "copy", "rand", "classify", "fastStart", "open", "put", "update"}

\* request r was rejected by the check of the media type
RejectedForMediaType(r) == req[r].contentTypeHeader # "unread"

\* C13 as stated: a request whose media type is not video/mp4 ends with the
\* one response 400 and has made no call at all: no temp file, no tool, no
\* Put and no metadata-store call.
C13_RejectedBeforeAnyCall ==
  \A r \in Reqs :
    RejectedForMediaType(r) =>
      /\ req[r].pc = "done"
      /\ req[r].resp = <<Response(400, Nil)>>
      /\ req[r].calls = <<>>

\* C13 amended: a request whose media type is not video/mp4 ends with the one
\* response 400 before the temp file is created: no temp file, no probe or
\* transcode, no Put and no UpdateVideo. Its one metadata-store call is the
\* GetVideo of the owner check, made before the media type was read. Every
\* request that is past the check has the media type video/mp4.
C13_MediaTypeRejectedBeforeSpool ==
  \A r \in Reqs :
    /\ RejectedForMediaType(r) =>
         /\ ParseMediaType(req[r].contentTypeHeader).err
              \/ ParseMediaType(req[r].contentTypeHeader).mediaType # "video/mp4"
         /\ req[r].pc = "done"
         /\ req[r].resp = <<Response(400, Nil)>>
         /\ req[r].calls = <<"GetVideo">>
         /\ TempPath(r) \notin fs
         /\ ProcessingPath(TempPath(r)) \notin fs
    /\ req[r].pc \in AfterMediaTypeCheck =>
         /\ req[r].mediaType = "video/mp4"
         /\ ~RejectedForMediaType(r)

\* the owner's upload declared image/png and was answered 400 with nothing
\* but the record read, while another upload had stored its object
C13_Witness ==
  \E r \in Reqs :
    /\ req[r].contentTypeHeader = "image/png"
    /\ req[r].userID = Owner
    /\ req[r].pc = "done"
    /\ req[r].resp = <<Response(400, Nil)>>
    /\ store # {}

\* the number of times the call c is in the history of request r
TimesCalled(r, c) ==
  Cardinality({i \in 1..Len(req[r].calls) : req[r].calls[i] = c})

\* C14: when UpdateVideo fails after the Put succeeded, the request ends with
\* the one response 500, the step leaves the persisted record as it was and
\* the store as it was, so the uploaded object stays in the store without
\* this request having referenced it; UpdateVideo was called once (no retry)
\* and no step of any request ever removes an object from the store.
C14_UpdateFailureOrphansObject ==
  /\ [](\A r \in Reqs :
          Called(r, "UpdateVideoFailed") =>
            /\ req[r].pc = "done"
            /\ req[r].resp = <<Response(500, Nil)>>
            /\ TimesCalled(r, "UpdateVideoFailed") = 1
            /\ ~Called(r, "UpdateVideo"))
  /\ [][\A r \in Reqs :
          (/\ req[r].pc = "update"
           /\ Called(r, "PutObject")
           /\ req'[r].calls = Append(req[r].calls, "UpdateVideoFailed"))
            => /\ db' = db
               /\ store' = store
               /\ \E o \in store' :
                    o.bucket = s3Bucket /\ o.key = req[r].fileName]_vars
  /\ [][\A o \in store :
          \E kept \in store' : kept.bucket = o.bucket /\ kept.key = o.key]_vars

\* a request whose Put succeeded and whose UpdateVideo failed has returned
\* with 500: its object is in the store and the record has no location
C14_Witness ==
  \E r \in Reqs :
    /\ build = "faststart"
    /\ req[r].pc = "done"
    /\ Called(r, "PutObject")
    /\ Called(r, "UpdateVideoFailed")
    /\ req[r].resp = <<Response(500, Nil)>>
    /\ db.VideoURL.nil
    /\ store # {}

\* C15: a step of a request changes the persisted location only if it is the
\* step on which that request ends with the response 200; a request that ends
\* with an error response has changed nothing.
C15_LocationChangesOnlyOnSuccess ==
  [][\A r \in Reqs :
       (req'[r] # req[r] /\ db'.VideoURL # db.VideoURL)
         => /\ req'[r].pc = "done"
            /\ req'[r].resp = <<Response(200, req'[r].resp[1].url)>>]_vars

\* the place of a call in the pipeline of handlerUploadVideo
StageRank(c) ==
  CASE c \in {"GetVideo", "GetVideoFailed"} -> 1
    [] c = "CreateTemp" -> 2
    [] c = "Copy" -> 3
    [] c = "ffprobe" -> 4
    [] c \in {"ffmpeg", "ffmpegFailed"} -> 5
    [] c = "Open" -> 6
    [] c \in {"PutObject", "PutObjectFailed"} -> 7
    [] c \in {"UpdateVideo", "UpdateVideoFailed"} -> 8
    [] c \in {"Presign", "PresignFailed"} -> 9
    [] OTHER -> 0

\* C16: the calls of one request are made one after the other in the order
\* spool, classify, normalize, Put, UpdateVideo, each at most once; in the
\* handler that normalizes none is left out. A stage starts on the finished
\* result of the one before: classification on the spooled file,
\* normalization on a classified key, the Put on the normalized file, and
\* UpdateVideo on an object that the Put has stored.
C16_StagesInOrder ==
  \A r \in Reqs :
    /\ \A i, j \in 1..Len(req[r].calls) :
         i < j => StageRank(req[r].calls[i]) < StageRank(req[r].calls[j])
    /\ build = "faststart" =>
         /\ \A i \in 1..Len(req[r].calls) : StageRank(req[r].calls[i]) = i
         /\ TriedUpdate(r) => Called(r, "PutObject")
    /\ req[r].pc = "classify" => (Called(r, "Copy") /\ TempPath(r) \in fs)
    /\ req[r].pc = "fastStart" =>
         /\ Called(r, "ffprobe")
         /\ Head(req[r].fileName) \in {"landscape", "portrait", "other"}
         /\ TempPath(r) \in fs
    /\ (req[r].pc = "put" /\ build = "faststart") =>
         /\ Called(r, "ffmpeg")
         /\ Called(r, "Open")
         /\ ProcessingPath(TempPath(r)) \in fs
    /\ (req[r].pc = "update" /\ build = "faststart") =>
         \E o \in store : /\ o.bucket = s3Bucket
                           /\ o.key = req[r].fileName
                           /\ o.body = "processed"

\* a request has gone through every stage, in order, and was answered 200
C16_Witness ==
  \E r \in Reqs :
    /\ build = "faststart"
    /\ req[r].pc = "done"
    /\ req[r].calls = <<"GetVideo", "CreateTemp", "Copy", "ffprobe", "ffmpeg",
                        "Open", "PutObject", "UpdateVideo", "Presign">>
    /\ req[r].resp[1].code = 200

\* request r is a successful upload: it has ended with the one response 200
Succeeded(r) ==
  /\ req[r].pc = "done"
  /\ Len(req[r].resp) = 1
  /\ req[r].resp[1].code = 200

\* the persisted location is the whole reference "bucket,key" of the object
\* whose signed URL request r was answered with
LocationIsReferenceOf(r) ==
  /\ IsReference(db.VideoURL)
  /\ req[r].resp[1].url =
       Ptr(PresignedURL(Cut(db.VideoURL.s).before, Cut(db.VideoURL.s).after))

\* C17: with the handler that stores "bucket,key", the step on which a
\* request's UpdateVideo succeeds sets the persisted location to the whole
\* reference of that request's object, whatever was there, and no other step
\* changes the location: the last writer wins. When two uploads have both
\* succeeded and no other request has written, the location is the whole
\* reference of one of the two objects and both objects are in the store.
C17_LastWriterWins ==
  /\ [](build = "faststart" =>
          \A r1, r2 \in Reqs :
            (/\ r1 # r2
             /\ Succeeded(r1)
             /\ Succeeded(r2)
             /\ \A o \in Reqs \ {r1, r2} : ~Called(o, "UpdateVideo"))
              => /\ LocationIsReferenceOf(r1) \/ LocationIsReferenceOf(r2)
                 /\ \A r \in {r1, r2} :
                      \E o \in store :
                        req[r].resp[1].url = Ptr(PresignedURL(o.bucket, o.key)))
  /\ [][build = "faststart" =>
          \A r \in Reqs :
            (/\ req[r].pc = "update"
             /\ req'[r].pc = "done"
             /\ \E i \in 1..Len(req'[r].calls) : req'[r].calls[i] = "UpdateVideo")
              => db'.VideoURL = Ptr(s3Bucket \o <<",">> \o req[r].fileName)]_vars
  /\ [][db'.VideoURL # db.VideoURL =>
          \E r \in Reqs :
            /\ req[r].pc = "update"
            /\ req'[r].pc = "done"
            /\ \E i \in 1..Len(req'[r].calls) : req'[r].calls[i] = "UpdateVideo"]_vars

\* two uploads of the owner, run concurrently, have both succeeded with
\* different keys: the store holds both objects and the record the reference
\* of the first request's object, the second request's update being lost or
\* made before
C17_Witness ==
  /\ build = "faststart"
  /\ Succeeded(1)
  /\ Succeeded(2)
  /\ req[1].resp[1].url # req[2].resp[1].url
  /\ LocationIsReferenceOf(1)
  /\ Cardinality(store) = 2

\* the orientation of the file the probe output describes: by the ratio
\* floor(w*1000/h) of its first video stream of positive width and height
Orientation(out) ==
  IF ~HasVideoStream(out) THEN "other"
  ELSE LET ratio == (SelectedStream(out).Width * 1000)
                      \div SelectedStream(out).Height
       IN IF 1700 <= ratio /\ ratio <= 1850 THEN "landscape"
          ELSE IF 520 <= ratio /\ ratio <= 600 THEN "portrait"
          ELSE "other"

\* C18: when an upload succeeds, the key of the object it has put is
\* {orientation}/{random-id}.mp4 with the orientation of its spooled file,
\* the reference it persists is the configured bucket, the delimiter and that
\* key, and the signed URL it answers with is signed for that bucket and key.
C18_KeyReferenceAndURLAgree ==
  [][build = "faststart" =>
       \A r \in Reqs :
         (/\ req[r].pc = "update"
          /\ req'[r].pc = "done"
          /\ req'[r].resp[Len(req'[r].resp)].code = 200)
           => LET key == req[r].fileName IN
              /\ \E id \in RandomIDs :
                   key = <<Orientation(req[r].probe), "/", id, ".", "mp4">>
              /\ \E o \in store' : o.bucket = s3Bucket /\ o.key = key
              /\ db'.VideoURL = Ptr(s3Bucket \o <<",">> \o key)
              /\ req'[r].resp = <<Response(200, Ptr(PresignedURL(s3Bucket, key)))>>]_vars

\* an upload of a 1280x720 video has succeeded: the object is under
\* landscape/, the record holds "bucket,landscape/idA.mp4" and the response
\* the URL signed for that bucket and key
C18_Witness ==
  \E r \in Reqs :
    LET key == <<"landscape", "/", "idA", ".", "mp4">> IN
    /\ build = "faststart"
    /\ req[r].pc = "done"
    /\ req[r].resp = <<Response(200, Ptr(PresignedURL(s3Bucket, key)))>>
    /\ db.VideoURL = Ptr(s3Bucket \o <<",">> \o key)
    /\ [bucket |-> s3Bucket, key |-> key, body |-> "processed"] \in store

\* C20: a request whose transcode tool failed (non-zero exit, or the tool
\* could not be started) ends there with the one response 500: the tool was
\* run once, and the request makes no Put and no UpdateVideo call.
C20_TranscodeFailureAborts ==
  \A r \in Reqs :
    Called(r, "ffmpegFailed") =>
      /\ req[r].pc = "done"
      /\ req[r].resp = <<Response(500, Nil)>>
      /\ req[r].calls[Len(req[r].calls)] = "ffmpegFailed"
      /\ TimesCalled(r, "ffmpegFailed") = 1
      /\ ~Called(r, "ffmpeg")
      /\ ~Called(r, "Open")
      /\ ~Called(r, "PutObject")
      /\ ~Called(r, "PutObjectFailed")
      /\ ~TriedUpdate(r)
      /\ TempPath(r) \notin fs

\* the transcode of the owner's upload has failed and the request was
\* answered 500: nothing is in the store and the record has no location
C20_Witness ==
  \E r \in Reqs :
    /\ req[r].pc = "done"
    /\ req[r].calls = <<"GetVideo", "CreateTemp", "Copy", "ffprobe", "ffmpegFailed">>
    /\ req[r].resp = <<Response(500, Nil)>>
    /\ store = {}
    /\ db.VideoURL.nil

\* C21: a handler that has not returned has written no response, and a
\* handler that has returned has written exactly one.
C21_ExactlyOneResponse ==
  \A r \in Reqs :
    /\ req[r].pc # "done" => req[r].resp = <<>>
    /\ req[r].pc = "done" => Len(req[r].resp) = 1

\* C22: when every external call returns, every video upload request ends
\* with a response, and from then on neither its spooled file nor its
\* normalized file exists.
C22_EndsRespondedAndCleaned ==
  \A r \in Reqs :
    <>[](/\ req[r].pc = "done"
         /\ req[r].resp # <<>>
         /\ TempPath(r) \notin fs
         /\ ProcessingPath(TempPath(r)) \notin fs)

====
